---- MODULE Spec2Model ----
(***************************************************************************)
(* The sine-wave dataset generator (DatasetGenerator) and the training     *)
(* controls of LSTMApp, as a state machine.                                *)
(*                                                                         *)
(* Numbers.  JavaScript numbers are modelled by integers.  Amplitudes,     *)
(* sequence values and targets are kept in quarters (Scale), frequencies   *)
(* in quarter cycles per time step and angles in quarter turns, so that    *)
(* the sine of every angle that occurs is exactly -1, 0 or 1.  A uniform   *)
(* draw is kept to three decimals.  NaN and Infinity are the values named  *)
(* so below; every comparison with NaN is false and every sum or product   *)
(* with NaN is NaN, as in JavaScript.                                      *)
(***************************************************************************)
EXTENDS Integers, Sequences, FiniteSets, TLC

VARIABLES
    currentDataset,    \* this.currentDataset
    status,            \* the type and text last given to setStatus
    startDisabled,     \* this.startTrainingBtn.disabled
    stopDisabled,      \* this.stopTrainingBtn.disabled
    stopTraining,      \* this.stopTraining
    trainingStatus,    \* the className and textContent of this.trainingStatus
    runs,              \* the calls of trainModel, by the order they started in

    generateRan,       \* whether the last handleGenerate ran DatasetGenerator.generate
    drawCount,         \* draws the last DatasetGenerator.generate took from its stream
    drawLog,           \* those draws in the order they were taken, and what each was for
    lastConfig,        \* the config the last handleGenerate read from the form
    lastClick,         \* the form the last handleStartTraining read, and whether it had a dataset
    remembered         \* a config handed to generate earlier, with what it returned

vars == <<currentDataset, status, startDisabled, stopDisabled, stopTraining,
          trainingStatus, runs, generateRan, drawCount, drawLog, lastConfig, lastClick,
          remembered>>
genVars ==
    <<currentDataset, status, generateRan, drawCount, drawLog, lastConfig, remembered>>
uiVars == <<startDisabled, stopDisabled, stopTraining, trainingStatus, runs, lastClick>>

(***************************************************************************)
(* Numbers                                                                 *)
(***************************************************************************)
NaN == -99999
Infinity == 9999
Scale == 4

NumAdd(a, b) == IF a = NaN \/ b = NaN THEN NaN ELSE a + b
NumSub(a, b) == IF a = NaN \/ b = NaN THEN NaN ELSE a - b
NumMul(a, b) == IF a = NaN \/ b = NaN THEN NaN ELSE a * b
JsLt(a, b) == a # NaN /\ b # NaN /\ a < b
JsGe(a, b) == a # NaN /\ b # NaN /\ a >= b
JsLe(a, b) == a # NaN /\ b # NaN /\ a <= b
JsGt(a, b) == a # NaN /\ b # NaN /\ a > b

\* The folds over an array are computed half by half: the result is that of the
\* left-to-right pass, reached in a number of nested steps logarithmic in the length.
Left(values) == SubSeq(values, 1, Len(values) \div 2)
Right(values) == SubSeq(values, Len(values) \div 2 + 1, Len(values))

\* Math.min(...values) and Math.max(...values)
RECURSIVE MathMin(_)
MathMin(values) ==
    IF values = <<>> THEN Infinity
    ELSE IF Len(values) = 1 THEN values[1]
    ELSE LET l == MathMin(Left(values))
             r == MathMin(Right(values))
         IN IF l = NaN \/ r = NaN THEN NaN ELSE IF l < r THEN l ELSE r

RECURSIVE MathMax(_)
MathMax(values) ==
    IF values = <<>> THEN -Infinity
    ELSE IF Len(values) = 1 THEN values[1]
    ELSE LET l == MathMax(Left(values))
             r == MathMax(Right(values))
         IN IF l = NaN \/ r = NaN THEN NaN ELSE IF l > r THEN l ELSE r

\* values.reduce((a, b) => a + b, 0)
RECURSIVE Sum(_)
Sum(values) ==
    IF values = <<>> THEN 0
    ELSE IF Len(values) = 1 THEN values[1]
    ELSE NumAdd(Sum(Left(values)), Sum(Right(values)))

RECURSIVE SumSq(_)
SumSq(values) ==
    IF values = <<>> THEN 0
    ELSE IF Len(values) = 1 THEN NumMul(values[1], values[1])
    ELSE NumAdd(SumSq(Left(values)), SumSq(Right(values)))

\* sequences.flat()
RECURSIVE Flat(_)
Flat(seqs) ==
    IF seqs = <<>> THEN <<>>
    ELSE IF Len(seqs) = 1 THEN seqs[1]
    ELSE Flat(Left(seqs)) \o Flat(Right(seqs))

\* Math.sin and Math.cos of an angle given in quarter turns
Sin4(angle) == IF angle = NaN THEN NaN ELSE <<0, 1, 0, -1>>[(angle % 4) + 1]
Cos4(angle) == IF angle = NaN THEN NaN ELSE <<1, 0, -1, 0>>[(angle % 4) + 1]

(***************************************************************************)
(* DatasetGenerator.seededRandom                                           *)
(***************************************************************************)
RandLo == -4
\* floor(1000 * frac(sin(c) * 10000)) for the counters c = RandLo, RandLo + 1, ...
RandTable ==
  << 24, 799, 25, 290, 0, 709, 974, 200, 975, 757, 845, 865, 582, 184, 788, 97, 270, 670, 73,
     878, 966, 25, 127, 772, 452, 556, 486, 795, 216, 482, 584, 759, 57, 661, 683, 623, 266,
     118, 826, 173, 211, 618, 685, 953, 131, 773, 784, 252, 19, 35, 883, 731, 453, 473, 251,
     291, 275, 251, 109, 448, 489, 647, 726, 380, 893, 822, 193, 557, 260, 286, 488, 800,
     723, 151, 906, 546, 233, 280, 537, 183, 76, 201, 784, 873, 113, 120, 287, 644, 903, 243,
     415, 821, 983, 694, 966, 875, 339, 178, 480, 617, 877, 77, 181, 931, 343, 257, 267, 886,
     775, 647, 574, 817, 185, 426, 573, 485, 43, 180, 803, 353, 613, 20, 478, 958, 111, 152,
     131, 965, 130, 595, 908, 300, 377, 266, 940, 966, 835, 657, 248, 686, 667, 855, 477,
     801, 396, 713, 49, 546, 784, 451, 691, 440, 666, 513, 235, 498, 205, 5, 796, 880, 153,
     514, 240, 197, 252, 922, 496, 898, 327, 972, 915, 498, 267, 1, 494, 908, 591, 894, 380,
     654, 522, 897, 753, 221, 473, 485, 189, 804, 843, 211, 760, 289, 763, 179, 992, 85, 616,
     434, 136, 546, 300, 58, 214, 11, 27 >>
\* the counters whose draw is at most 1e-10: sin(0) * 10000 is exactly 0
TinyCounters == {0}

\* (the stream of the previous call carried on: what a generator kept outside generate
\* would do)
seededRandom_shared(seed) ==
    [counter |-> NumAdd(seed, drawCount), draws |-> 0, log |-> <<>>]

\* A stream is the closure seededRandom returns: its counter (the captured seed) and,
\* for the record, the number of draws taken from it and the log of these draws.
seededRandom(seed) == [counter |-> seed, draws |-> 0, log |-> <<>>]

\* 2^53, the least positive double d for which d + 1 is d again (the sum is rounded to
\* the nearest double, and to the even one of two).  It is beyond the integers of the
\* model and is stood for by a number above every other counter.
TwoTo53 == 90071
\* floor(1000 * frac(sin(2^53) * 10000))
DrawAtTwoTo53 == 740

\* seed++ on a double
Increment(counter) ==
    IF counter = NaN THEN NaN ELSE IF counter = TwoTo53 THEN TwoTo53 ELSE counter + 1

\* one call of the closure: the draw, whether it is at most 1e-10, the stream after it
random(stream) ==
    [value |-> IF stream.counter = NaN THEN NaN
               ELSE IF stream.counter = TwoTo53 THEN DrawAtTwoTo53
               ELSE RandTable[stream.counter - RandLo + 1],
     tiny |-> stream.counter \in TinyCounters,
     next |-> [stream EXCEPT !.counter = Increment(stream.counter), !.draws = @ + 1]]

\* random() called for the use named: the call, with its entry added to the log (the
\* stream is evaluated once, as the one element of a set)
Draw(stream, use) ==
    LET Logged(s, r) ==
            [r EXCEPT !.next.log = Append(@, [use |-> use, counter |-> s.counter,
                                              after |-> r.next.counter, value |-> r.value,
                                              tiny |-> r.tiny])]
    IN CHOOSE call \in {Logged(s, random(s)) : s \in {stream}} : TRUE

\* a draw u in [0,1), to the quarter: floor(4 * u)
Quarter(u) == IF u = NaN THEN NaN ELSE u \div 250

(***************************************************************************)
(* DatasetGenerator.gaussianRandom                                         *)
(***************************************************************************)
\* the integer part of Math.sqrt(-2 * Math.log(u1)), u1 in thousandths
SqrtLog(u1) ==
    IF u1 = NaN THEN NaN
    ELSE IF u1 >= 607 THEN 0
    ELSE IF u1 >= 136 THEN 1
    ELSE IF u1 >= 12 THEN 2
    ELSE IF u1 >= 1 THEN 3
    ELSE 4

RECURSIVE gaussianRandom(_)
gaussianRandom(stream) ==
    LET u1 == Draw(stream, "u1") IN
    IF u1.tiny THEN gaussianRandom(u1.next)
    ELSE LET u2 == Draw(u1.next, "u2") IN
         [value |-> NumMul(SqrtLog(u1.value), Cos4(Quarter(u2.value))),
          next |-> u2.next]

(***************************************************************************)
(* DatasetGenerator.calculateStd and DatasetGenerator.generate             *)
(***************************************************************************)
\* The mean of values is the fraction num / den and their standard deviation is
\* sqrt(sq) / den; with no values both are 0 / 0, which is NaN.
Mean(values) == [num |-> Sum(values), den |-> Len(values)]

calculateStd(values) ==
    LET n == Len(values)
        s == Sum(values)
    IN [sq |-> NumSub(NumMul(n, SumSq(values)), NumMul(s, s)), den |-> n]

\* amplitude * Math.sin(2 * Math.PI * frequency * t + phase)
SineAt(amplitude, frequency, phase, t) ==
    NumMul(amplitude, Sin4(NumAdd(NumMul(frequency, t), phase)))

\* (the target given the noise of the sequence values)
TargetValue_noised(config, amplitude, frequency, phase, stream) ==
    NumAdd(SineAt(amplitude, frequency, phase, config.sequenceLength),
           IF JsGt(config.noiseStd, 0)
           THEN NumMul(Scale, NumMul(gaussianRandom(stream).value, config.noiseStd))
           ELSE 0)

\* the value that becomes targets[i]; stream is the shared stream after the draws of
\* the sequence, which the target does not use
TargetValue(config, amplitude, frequency, phase, stream) ==
    SineAt(amplitude, frequency, phase, config.sequenceLength)

\* the time steps t, t + 1, ... of one sequence; stream is the shared stream
RECURSIVE GenSequence(_, _, _, _, _, _, _)
GenSequence(config, amplitude, frequency, phase, t, stream, sequence) ==
    IF ~JsLt(t, config.sequenceLength) THEN [sequence |-> sequence, stream |-> stream]
    ELSE LET base == SineAt(amplitude, frequency, phase, t)
             noisy == JsGt(config.noiseStd, 0)
             g == gaussianRandom(stream)
             value == IF noisy
                      THEN NumAdd(base, NumMul(Scale, NumMul(g.value, config.noiseStd)))
                      ELSE base
         IN GenSequence(config, amplitude, frequency, phase, t + 1,
                        IF noisy THEN g.next ELSE stream, Append(sequence, value))

\* the rounds of the loop for (let i = 0; i < samples; i++) up to round to - 1, entered
\* with what the rounds before have pushed and the stream they left (acc); the index i
\* of a round is the number of sequences pushed before it.  The rounds are taken half
\* by half, the second half entered with what the first half leaves.
RECURSIVE GenSamples(_, _, _)
GenSamples(config, acc, to) ==
    LET from == Len(acc.sequences) IN
    IF to <= from THEN acc
    ELSE IF to = from + 1
    THEN LET i == from
             a == Draw(acc.stream, "amplitude")
             f == Draw(a.next, "frequency")
             p == Draw(f.next, "phase")
             amplitude == NumAdd(NumMul(Scale, config.ampMin),
                                 NumMul(Quarter(a.value), NumSub(config.ampMax, config.ampMin)))
             frequency == NumAdd(NumMul(Scale, config.freqMin),
                                 NumMul(Quarter(f.value), NumSub(config.freqMax, config.freqMin)))
             phase == Quarter(p.value)
             s == GenSequence(config, amplitude, frequency, phase, 0, p.next, <<>>)
         IN [sequences |-> Append(acc.sequences, s.sequence),
             targets |-> Append(acc.targets,
                                TargetValue(config, amplitude, frequency, phase, s.stream)),
             metadata |-> Append(acc.metadata,
                                 [sampleId |-> i, amplitude |-> amplitude,
                                  frequency |-> frequency, phase |-> phase]),
             stream |-> s.stream]
    ELSE GenSamples(config, GenSamples(config, acc, (from + to) \div 2), to)

\* the number of rounds of the loop: i < samples is false at once when samples is NaN
Rounds(samples) == IF JsGt(samples, 0) THEN samples ELSE 0

\* generate(config) at wall time now: what it returns, and the stream it leaves behind.
\* (What the loop made and the flattened values are each evaluated once, as the one
\* element of a set.)
generate(config, now) ==
    LET Returned(made, allValues) ==
            [dataset |->
                [sequences |-> made.sequences,
                 targets |-> made.targets,
                 metadata |-> made.metadata,
                 stats |-> [min |-> MathMin(allValues),
                            max |-> MathMax(allValues),
                            mean |-> Mean(allValues),
                            std |-> calculateStd(allValues),
                            samplesCount |-> config.samples,
                            sequenceLength |-> config.sequenceLength,
                            generatedAt |-> now,
                            config |-> [seed |-> config.seed, noiseStd |-> config.noiseStd,
                                        ampMin |-> config.ampMin, ampMax |-> config.ampMax,
                                        freqMin |-> config.freqMin,
                                        freqMax |-> config.freqMax]]],
             draws |-> made.stream.draws,
             log |-> made.stream.log]
        Stats(made) ==
            CHOOSE out \in {Returned(made, allValues) : allValues \in {Flat(made.sequences)}} :
                TRUE
    IN CHOOSE out \in
           {Stats(made) :
               made \in {GenSamples(config,
                                    [sequences |-> <<>>, targets |-> <<>>, metadata |-> <<>>,
                                     stream |-> seededRandom(config.seed)],
                                    Rounds(config.samples))}} : TRUE

(***************************************************************************)
(* LSTMApp.validateConfig and LSTMApp.handleGenerate                       *)
(***************************************************************************)
\* the message of the error validateConfig throws, "ok" when it returns
validateConfig(config) ==
    IF JsLt(config.samples, 1) THEN "Samples must be at least 1"
    ELSE IF JsLt(config.sequenceLength, 1) THEN "Sequence length must be at least 1"
    ELSE IF JsLt(config.noiseStd, 0) THEN "Noise std must be non-negative"
    ELSE IF JsGe(config.ampMin, config.ampMax) THEN "Amplitude min must be less than max"
    ELSE IF JsGe(config.freqMin, config.freqMax) THEN "Frequency min must be less than max"
    ELSE IF JsLt(config.ampMin, 0) THEN "Amplitude must be positive"
    ELSE IF JsLt(config.freqMin, 0) THEN "Frequency must be positive"
    ELSE "ok"

Null == [null |-> TRUE]

\* renderPreviewSample reads sequences[0].length: a TypeError when there is no sequence
renderPreviewSample(dataset) == IF dataset.sequences = <<>> THEN "TypeError" ELSE "ok"

\* A click on the generate button with the form holding config, at wall time now.
\* keep: whether this call is the one kept in remembered (a record, not program state:
\* the config, the time, what generate returned, and whether generate has since been
\* called with another config).
handleGenerate(config, now, keep) ==
    LET error == validateConfig(config)
        made == generate(config, now)
    IN /\ lastConfig' = config
       /\ IF error # "ok"
          THEN /\ status' = [type |-> "error", text |-> error]
               /\ generateRan' = FALSE
               /\ UNCHANGED <<currentDataset, drawCount, drawLog, remembered,
                              startDisabled, stopDisabled>>
          ELSE /\ currentDataset' = made.dataset
               /\ generateRan' = TRUE
               /\ drawCount' = made.draws
               /\ drawLog' = made.log
               /\ remembered' = IF keep
                                THEN [config |-> config, at |-> now, between |-> FALSE,
                                      sequences |-> made.dataset.sequences,
                                      targets |-> made.dataset.targets,
                                      metadata |-> made.dataset.metadata]
                                ELSE IF remembered # Null /\ config # remembered.config
                                THEN [remembered EXCEPT !.between = TRUE]
                                ELSE remembered
               /\ IF renderPreviewSample(made.dataset) # "ok"
                  THEN /\ status' = [type |-> "error", text |-> "TypeError"]
                       /\ UNCHANGED <<startDisabled, stopDisabled>>
                  ELSE /\ status' = [type |-> "success", text |-> "Dataset generated"]
                       /\ startDisabled' = FALSE
                       /\ stopDisabled' = TRUE
       /\ UNCHANGED <<stopTraining, trainingStatus, runs, lastClick>>

(***************************************************************************)
(* LSTMApp.trainModel: the low-CPU subset                                  *)
(***************************************************************************)
\* The double nearest to p / 100 is p / 100 + Residual[p] / (100 * 2^(52 - Exponent(p))),
\* for p = 1 .. 100 (IEEE 754 binary64, round to nearest even).
Residual ==
  << 12, 12, -32, 12, 40, -32, 48, 12, -24, 40, 4, -32, 16, 48, -20, 12, 44, -24, 8, 40, -28,
     4, 36, -32, 0, 16, 32, 48, -36, -20, -4, 12, 28, 44, -40, -24, -8, 8, 24, 40, -44, -28,
     -12, 4, 20, 36, -48, -32, -16, 0, 8, 16, 24, 32, 40, 48, -44, -36, -28, -20, -12, -4, 4,
     12, 20, 28, 36, 44, -48, -40, -32, -24, -16, -8, 0, 8, 16, 24, 32, 40, 48, -44, -36,
     -28, -20, -12, -4, 4, 12, 20, 28, 36, 44, -48, -40, -32, -24, -16, -8, 0 >>

\* the binary exponent of p / 100: p / 100 lies in [2^e, 2^(e + 1))
Exponent(p) ==
    IF p >= 100 THEN 0 ELSE IF p >= 50 THEN -1 ELSE IF p >= 25 THEN -2
    ELSE IF p >= 13 THEN -3 ELSE IF p >= 7 THEN -4 ELSE IF p >= 4 THEN -5
    ELSE IF p >= 2 THEN -6 ELSE -7

RECURSIVE Pow2(_)
Pow2(e) == IF e <= 0 THEN 1 ELSE 2 * Pow2(e - 1)

RECURSIVE FloorLog2(_)
FloorLog2(k) == IF k <= 1 THEN 0 ELSE 1 + FloorLog2(k \div 2)

\* Math.floor(n * (pct / 100)) in double arithmetic, n >= 0 and pct in 1 .. 100.
\* The product of n and the double nearest pct / 100 is rounded to a double: when
\* n * pct / 100 is a whole number K and that double lies below pct / 100 by more than
\* half the gap between K and the double before K, the product rounds below K.
FloorOfProduct(n, pct) ==
    LET K == (n * pct) \div 100
        j == FloorLog2(K)
        isPow == K = Pow2(j)
        \* half the gap below K is 2^(j - 53), or 2^(j - 54) when K is a power of two;
        \* the shortfall is n * -Residual / (100 * 2^(52 - Exponent))
        shift == j - Exponent(pct) - (IF isPow THEN 1 ELSE 0)
    IN IF (n * pct) % 100 # 0 \/ K = 0 \/ Residual[pct] >= 0 THEN K
       ELSE IF 2 * n * (-Residual[pct]) > 100 * Pow2(shift) THEN K - 1
       ELSE K

\* const pct = Math.min(100, Math.max(1, parseInt(config.subsetPercent || 20, 10)))
ClampPercent(subsetPercent) ==
    LET given == IF subsetPercent = NaN \/ subsetPercent = 0 THEN 20 ELSE subsetPercent
    IN IF given > 100 THEN 100 ELSE IF given < 1 THEN 1 ELSE given

\* const subsetCount = Math.max(1, Math.floor(allSequences.length * (pct / 100)))
SubsetCount(n, pct) ==
    LET k == FloorOfProduct(n, pct) IN IF k < 1 THEN 1 ELSE k

\* What Math.random() returns is not determined by the program: the draws of one shuffle
\* are those of a stream rnd = <<a, b>>, whose draw at step i is
\* ((a + b * i) mod RandomDen) / RandomDen.
RandomDen == 6
RandomStreams == (0 .. RandomDen - 1) \X (0 .. RandomDen - 1)

\* const j = Math.floor(Math.random() * (i + 1))
RandomIndex(rnd, i) == (((rnd[1] + rnd[2] * i) % RandomDen) * (i + 1)) \div RandomDen

\* Array.from({ length: n }, (_, i) => i)
RECURSIVE Indices(_)
Indices(n) == IF n <= 0 THEN <<>> ELSE Append(Indices(n - 1), n - 1)

\* the rounds i = hi, hi - 1, ..., lo of the Fisher-Yates loop
\* for (let i = n - 1; i > 0; i--), i a position of the array, taken half by half;
\* indices holds 0 .. n - 1, as in the code, at the positions 1 .. n
RECURSIVE Shuffle(_, _, _, _)
Shuffle(indices, hi, lo, rnd) ==
    IF hi < lo \/ hi >= Len(indices) THEN indices
    ELSE IF hi = lo
    THEN LET i == hi
             j == RandomIndex(rnd, i)
         IN [indices EXCEPT ![i + 1] = indices[j + 1], ![j + 1] = indices[i + 1]]
    ELSE Shuffle(Shuffle(indices, hi, (hi + lo) \div 2 + 1, rnd), (hi + lo) \div 2, lo, rnd)

\* indices.slice(0, subsetCount)
Slice(s, count) == [k \in 1 .. (IF count < Len(s) THEN count ELSE Len(s)) |-> s[k]]

\* the indices trainModel trains on
Chosen(config, n, rnd) ==
    IF config.lowCpu
    THEN Slice(Shuffle(Indices(n), n - 1, 1, rnd),
               SubsetCount(n, ClampPercent(config.subsetPercent)))
    ELSE Indices(n)

(***************************************************************************)
(* LSTMApp.trainModel: normalisation                                       *)
(***************************************************************************)
\* (v - stats.mean) / stats.std: the number num / sqrt(sq) when it is finite
Normalize(v, stats) ==
    LET num == NumSub(NumMul(v, stats.mean.den), stats.mean.num)
        sq == stats.std.sq
    IN IF num = NaN \/ sq = NaN \/ stats.mean.den = 0
       THEN [class |-> "NaN", num |-> 0, sq |-> 0]
       ELSE IF sq = 0
       THEN [class |-> IF num = 0 THEN "NaN" ELSE IF num > 0 THEN "Infinity" ELSE "-Infinity",
             num |-> 0, sq |-> 0]
       ELSE [class |-> "finite", num |-> num, sq |-> sq]

\* (the sequences normalised by the mean and std of their own values)
PrepareXs_own(sequences, stats) ==
    LET own == [mean |-> Mean(Flat(sequences)), std |-> calculateStd(Flat(sequences))]
    IN [k \in 1 .. Len(sequences) |->
           [t \in 1 .. Len(sequences[k]) |-> Normalize(sequences[k][t], own)]]

\* the arrays xs and ys of one call of trainModel
PrepareXs(sequences, stats) ==
    [k \in 1 .. Len(sequences) |->
        [t \in 1 .. Len(sequences[k]) |-> Normalize(sequences[k][t], stats)]]

PrepareYs(targets, stats) == [k \in 1 .. Len(targets) |-> Normalize(targets[k], stats)]

(***************************************************************************)
(* LSTMApp.handleStartTraining, handleStopTraining and trainModel          *)
(***************************************************************************)
\* learningRate is kept in thousandths and validationSplit in hundredths
One == 100

\* the message of the error the checks of handleStartTraining throw, "ok" when none
validateTraining(inp) ==
    IF inp.units = NaN \/ inp.units <= 0 THEN "Invalid LSTM units"
    ELSE IF inp.batchSize = NaN \/ inp.batchSize <= 0 THEN "Invalid batch size"
    ELSE IF inp.epochs = NaN \/ inp.epochs <= 0 THEN "Invalid epochs"
    ELSE IF inp.learningRate = NaN \/ inp.learningRate <= 0 THEN "Invalid learning rate"
    ELSE IF \/ inp.validationSplit = NaN
            \/ inp.validationSplit < 0
            \/ inp.validationSplit >= One THEN "Invalid validation split"
    ELSE "ok"

\* tf.tensor3d(xs) takes a number[][][]: given an array that is not three levels deep
\* (no sequence, or sequences of no value) it throws, and nothing has been created
WellShaped(xs) == xs # <<>> /\ xs[1] # <<>>

\* One call of trainModel from its first line to its first await: with config.epochs > 0
\* and this.stopTraining just cleared, the first model.fit call when nothing throws.
\* trainingMetrics before displayTrainingMetrics has written to it
NoMetrics ==
    [called |-> FALSE, shown |-> FALSE, finalTrainLoss |-> NaN, finalValLoss |-> NaN, bestValLoss |-> NaN,
     bestEpoch |-> -1, ratio |-> <<NaN, NaN>>]

\* values.indexOf(v): the comparison is ===, under which NaN equals nothing
IndexOf(values, v) ==
    IF v # NaN /\ \E k \in 1 .. Len(values) : values[k] = v
    THEN (CHOOSE k \in 1 .. Len(values) :
              /\ values[k] = v
              /\ \A j \in 1 .. k - 1 : values[j] # v) - 1
    ELSE -1

\* The numbers displayTrainingMetrics computes and writes to the page; the ratio is
\* kept as the pair <<finalValLoss, finalTrainLoss>>.  On empty arrays the final losses
\* are undefined and finalTrainLoss.toFixed raises: nothing is written.
displayTrainingMetrics(trainLosses, valLosses) ==
    LET values == [k \in 1 .. Len(valLosses) |-> valLosses[k].num]
        bestValLoss == MathMin(values)
        written == trainLosses # <<>> /\ valLosses # <<>>
        finalTrainLoss == IF written THEN trainLosses[Len(trainLosses)].num ELSE NaN
        finalValLoss == IF written THEN values[Len(values)] ELSE NaN
    IN [called |-> TRUE,
        shown |-> written,
        finalTrainLoss |-> finalTrainLoss,
        finalValLoss |-> finalValLoss,
        bestValLoss |-> bestValLoss,
        bestEpoch |-> IndexOf(values, bestValLoss) + 1,
        ratio |-> <<finalValLoss, finalTrainLoss>>]

\* the three dispose calls at the end of trainModel
Dispose(run) == [run EXCEPT !.xsTensor = "disposed", !.ysTensor = "disposed",
                            !.model = "disposed"]

\* The lines after the loop, left at the epoch given with this.stopTraining as given:
\* the summary, the three dispose calls, the outcome.  A summary that raises leaves
\* the rest undone and the run ends with the error.
AfterLoop(run, epoch, stopped) ==
    LET summary == displayTrainingMetrics(run.trainLosses, run.valLosses)
        ended == [run EXCEPT !.epoch = epoch, !.pc = "done", !.metrics = summary]
    IN IF summary.shown
       THEN Dispose([ended EXCEPT !.outcome = IF stopped THEN "Stopped" ELSE "Completed"])
       ELSE [ended EXCEPT !.outcome = "Failed", !.uiRaised = TRUE]

\* (a frame awaited between the reset of the stop flag and the loop)
EnterLoop_yielding(config) == [pc |-> "frame", epoch |-> -1, fitCalls |-> <<>>]

\* From this.stopTraining = false to the loop nothing is awaited: the condition of the
\* loop is evaluated at epoch 0 with the flag just cleared, and the first model.fit
\* call is made unless epochs is not above 0.
EnterLoop(config) ==
    IF JsLt(0, config.epochs)
    THEN [pc |-> "fit", epoch |-> 0, fitCalls |-> <<0>>]
    ELSE [pc |-> "after", epoch |-> 0, fitCalls |-> <<>>]

StartRun(dataset, config, rnd) ==
    LET chosen == Chosen(config, Len(dataset.sequences), rnd)
        sequences == [k \in 1 .. Len(chosen) |-> dataset.sequences[chosen[k] + 1]]
        targets == [k \in 1 .. Len(chosen) |-> dataset.targets[chosen[k] + 1]]
        xs == PrepareXs(sequences, dataset.stats)
        ys == PrepareYs(targets, dataset.stats)
        built == WellShaped(xs)
        enter == EnterLoop(config)
        entered ==
            [pc |-> IF built THEN enter.pc ELSE "done",
             config |-> config,
             epoch |-> enter.epoch,
             chosen |-> chosen,
             sequences |-> sequences,
             targets |-> targets,
             xs |-> xs,
             ys |-> ys,
             xsTensor |-> IF built THEN "live" ELSE "none",
             ysTensor |-> IF built THEN "live" ELSE "none",
             model |-> IF built THEN "live" ELSE "none",
             trainLosses |-> <<>>,
             valLosses |-> <<>>,
             trainMAEs |-> <<>>,
             valMAEs |-> <<>>,
             outcome |-> IF built THEN "none" ELSE "Failed",
             \* for the record: the epochs model.fit was called for, the epochs whose progress
             \* was written to the page, the epoch in flight at the first stop request (-1: no
             \* request yet), whether a model.fit call raised
             fitCalls |-> IF built THEN enter.fitCalls ELSE <<>>,
             shown |-> <<>>,
             stopAt |-> -1,
             fitRaised |-> FALSE,
             \* what the model.fit calls resolved with, and whether a line between a
             \* model.fit call and the next await raised
             histories |-> <<>>,
             uiRaised |-> FALSE,
             \* the milliseconds since startTime, and their value at each write of the
             \* progress to the page
             clock |-> 0,
             shownAt |-> <<>>,
             \* what the run wrote to trainingMetrics
             metrics |-> NoMetrics,
             \* whether a stop was requested while the run was in flight; the length and the
             \* stats of the dataset the run was started on
             stopRequested |-> FALSE,
             total |-> Len(dataset.sequences),
             stats |-> dataset.stats]
    IN IF entered.pc = "after" THEN AfterLoop(entered, 0, FALSE) ELSE entered

InFlight(run) == run.pc \in {"fit", "frame"}

\* A click on the start button with the training form holding inp.
handleStartTraining(inp, rnd) ==
    LET error == validateTraining(inp)
        config == [units |-> inp.units, batchSize |-> inp.batchSize,
                   epochs |-> inp.epochs, learningRate |-> inp.learningRate,
                   validationSplit |-> inp.validationSplit, lowCpu |-> inp.lowCpu,
                   subsetPercent |-> inp.subsetPercent]
        run == StartRun(currentDataset, config, rnd)
    IN /\ ~startDisabled
       /\ lastClick' = [input |-> inp, hadDataset |-> currentDataset # Null]
       /\ IF currentDataset = Null
          THEN /\ trainingStatus' = [type |-> "error",
                                     text |-> "Please generate a dataset first"]
               /\ UNCHANGED <<startDisabled, stopDisabled, stopTraining, runs>>
          ELSE IF error # "ok"
          THEN /\ trainingStatus' = [type |-> "error", text |-> error]
               /\ startDisabled' = FALSE
               /\ stopDisabled' = TRUE
               /\ UNCHANGED <<stopTraining, runs>>
          ELSE /\ stopTraining' = FALSE
               /\ runs' = Append(runs, run)
               /\ IF run.pc = "done"
                  THEN /\ trainingStatus' = [type |-> "error", text |-> "Training error"]
                       /\ startDisabled' = FALSE
                       /\ stopDisabled' = TRUE
                  ELSE /\ trainingStatus' =
                              IF config.lowCpu
                              THEN [type |-> "info", text |-> "Low-CPU mode"]
                              ELSE [type |-> "info", text |-> "Preparing data..."]
                       /\ startDisabled' = TRUE
                       /\ stopDisabled' = FALSE
       /\ UNCHANGED genVars

\* A click on the stop button.
\* (a stop that ends the runs in flight at once, in the middle of their epoch)
handleStopTraining_aborting ==
    /\ ~stopDisabled
    /\ stopTraining' = TRUE
    /\ stopDisabled' = TRUE
    /\ runs' = [r \in 1 .. Len(runs) |->
                   IF InFlight(runs[r])
                   THEN [runs[r] EXCEPT !.stopRequested = TRUE, !.pc = "done",
                                        !.outcome = "Stopped"]
                   ELSE runs[r]]
    /\ UNCHANGED <<startDisabled, trainingStatus, lastClick>>
    /\ UNCHANGED genVars

handleStopTraining ==
    /\ ~stopDisabled
    /\ stopTraining' = TRUE
    /\ stopDisabled' = TRUE
    /\ runs' = [r \in 1 .. Len(runs) |->
                   IF runs[r].pc = "fit" /\ runs[r].stopAt = -1
                   THEN [runs[r] EXCEPT !.stopAt = runs[r].epoch, !.stopRequested = TRUE]
                   ELSE IF InFlight(runs[r])
                   THEN [runs[r] EXCEPT !.stopRequested = TRUE]
                   ELSE runs[r]]
    /\ UNCHANGED <<startDisabled, trainingStatus, lastClick>>
    /\ UNCHANGED genVars

(***************************************************************************)
(* LSTMApp._extractHistoryMetric and the metrics of one epoch              *)
(***************************************************************************)
\* A JavaScript value, as far as the extraction can tell values apart: its type, the
\* number it is (type "number") or converts to (Number(v), type "string"), and its
\* elements (type "array") or what its dataSync() returns (type "tensor").
JsVal(type, num, items) == [type |-> type, num |-> num, items |-> items]
Undefined == JsVal("undefined", NaN, <<>>)
JsNull == JsVal("null", 0, <<>>)
Num(n) == JsVal("number", n, <<>>)
\* a non-empty string, given by what Number() makes of it
Str(n) == JsVal("string", n, <<>>)
Arr(items) == JsVal("array", NaN, items)
\* an object with a dataSync method; one whose dataSync throws (a disposed tensor)
Tensor(items) == JsVal("tensor", NaN, items)
DisposedTensor == JsVal("disposed", NaN, <<>>)
Obj == JsVal("object", NaN, <<>>)
\* what an object holds under a key it does not have
Absent == JsVal("absent", NaN, <<>>)

\* the keys read by trainModel
MetricKeys ==
    {"loss", "val_loss", "mae", "val_mae", "valLoss", "meanAbsoluteError",
     "valMeanAbsoluteError"}

\* arr[arr.length - 1]
ArrayLast(arr) == IF arr.items = <<>> THEN Undefined ELSE arr.items[Len(arr.items)]

\* _extractHistoryMetric(historyObj, key).  historyObj is what model.fit resolved with:
\* whether it is an object at all (defined), whether it has a history object (nested),
\* the keys of that object (history) and its own keys (fields).
extractHistoryMetric(historyObj, key) ==
    IF ~historyObj.defined THEN Undefined
    ELSE IF historyObj.nested /\ historyObj.history[key] # Absent
    THEN LET arr == historyObj.history[key] IN
         IF arr.type = "array" THEN ArrayLast(arr) ELSE arr
    ELSE LET val == historyObj.fields[key] IN
         IF val.type \in {"absent", "undefined", "null"} THEN Undefined
         ELSE IF val.type = "tensor"
         THEN (IF val.items = <<>> THEN Undefined ELSE val.items[1])
         ELSE IF val.type = "disposed" THEN Undefined
         ELSE IF val.type = "array" THEN ArrayLast(val)
         ELSE val

\* a || b
Truthy(v) ==
    IF v.type = "number" THEN v.num # 0 /\ v.num # NaN
    ELSE v.type \notin {"undefined", "null", "absent"}
Or(a, b) == IF Truthy(a) THEN a ELSE b

\* Number(v)
ToNumber(v) ==
    IF v.type \in {"number", "string"} THEN v.num
    ELSE IF v.type = "null" THEN 0
    ELSE NaN

\* typeof v === 'number' ? v : (Array.isArray(v) ? v[v.length - 1] : Number(v) || 0)
EnsureNumber(v) ==
    IF v.type = "number" THEN v
    ELSE IF v.type = "array" THEN ArrayLast(v)
    ELSE Or(Num(ToNumber(v)), Num(0))

\* the four values trainModel pushes for an epoch whose model.fit resolved with history
ExtractMetrics(history) ==
    LET trainLoss == extractHistoryMetric(history, "loss")
        valLoss == extractHistoryMetric(history, "val_loss")
        trainMAE == extractHistoryMetric(history, "mae")
        valMAE == extractHistoryMetric(history, "val_mae")
        valLoss2 == IF valLoss = Undefined THEN extractHistoryMetric(history, "valLoss")
                    ELSE valLoss
        trainMAE2 == IF trainMAE = Undefined
                     THEN Or(extractHistoryMetric(history, "meanAbsoluteError"),
                             extractHistoryMetric(history, "mae"))
                     ELSE trainMAE
        valMAE2 == IF valMAE = Undefined
                   THEN Or(extractHistoryMetric(history, "valMeanAbsoluteError"),
                           extractHistoryMetric(history, "val_mae"))
                   ELSE valMAE
    IN [trainLoss |-> EnsureNumber(trainLoss), valLoss |-> EnsureNumber(valLoss2),
        trainMAE |-> EnsureNumber(trainMAE2), valMAE |-> EnsureNumber(valMAE2)]

\* (each array holding the values of the last epoch only)
PushMetrics_replaced(run, m) ==
    [run EXCEPT !.trainLosses = <<m.trainLoss>>, !.valLosses = <<m.valLoss>>,
                !.trainMAEs = <<m.trainMAE>>, !.valMAEs = <<m.valMAE>>]

\* trainLosses.push(trainLoss); valLosses.push(valLoss); trainMAEs.push(trainMAE);
\* valMAEs.push(valMAE)
PushMetrics(run, m) ==
    [run EXCEPT !.trainLosses = Append(@, m.trainLoss), !.valLosses = Append(@, m.valLoss),
                !.trainMAEs = Append(@, m.trainMAE), !.valMAEs = Append(@, m.valMAE)]

\* The model.fit call of run r resolves with history, took milliseconds after the
\* page was last written to (or after startTime was read): the lines from it to the next
\* await.  The four values are pushed and the progress bar is set; trainLoss.toFixed or
\* valLoss.toFixed then throws when the value is no number, and trainModel rethrows.
FitReturn(r, history, took) ==
    LET m == ExtractMetrics(history)
        pushed == [PushMetrics(runs[r], m) EXCEPT !.histories = Append(@, history),
                                                  !.shown = Append(@, runs[r].epoch),
                                                  !.clock = @ + took,
                                                  !.shownAt = Append(@, runs[r].clock + took)]
    IN /\ r \in 1 .. Len(runs)
       /\ runs[r].pc = "fit"
       /\ IF m.trainLoss.type = "number" /\ m.valLoss.type = "number"
          THEN /\ runs' = [runs EXCEPT ![r] = [pushed EXCEPT !.pc = "frame"]]
               /\ UNCHANGED <<startDisabled, stopDisabled, trainingStatus>>
          ELSE /\ runs' = [runs EXCEPT ![r] = [pushed EXCEPT !.pc = "done",
                                                         !.outcome = "Failed",
                                                         !.uiRaised = TRUE]]
               /\ trainingStatus' = [type |-> "error", text |-> "Training error"]
               /\ startDisabled' = FALSE
               /\ stopDisabled' = TRUE
       /\ UNCHANGED <<stopTraining, lastClick>>
       /\ UNCHANGED genVars

\* (the error of model.fit rethrown by trainModel and caught by no one)
FitRaise_uncaught(r) ==
    /\ r \in 1 .. Len(runs)
    /\ runs[r].pc = "fit"
    /\ runs' = [runs EXCEPT ![r] = [@ EXCEPT !.pc = "done", !.outcome = "Failed",
                                              !.fitRaised = TRUE]]
    /\ UNCHANGED <<startDisabled, stopDisabled, trainingStatus, stopTraining, lastClick>>
    /\ UNCHANGED genVars

\* The model.fit call of run r raises: trainModel rethrows and the catch clause of
\* handleStartTraining reports it.
FitRaise(r) ==
    /\ r \in 1 .. Len(runs)
    /\ runs[r].pc = "fit"
    /\ runs' = [runs EXCEPT ![r] = [@ EXCEPT !.pc = "done", !.outcome = "Failed",
                                              !.fitRaised = TRUE]]
    /\ trainingStatus' = [type |-> "error", text |-> "Training error"]
    /\ startDisabled' = FALSE
    /\ stopDisabled' = TRUE
    /\ UNCHANGED <<stopTraining, lastClick>>
    /\ UNCHANGED genVars

\* (the next epoch prepared anew from this.currentDataset)
NextFrame_reading(r) ==
    LET run == runs[r]
        epoch == run.epoch + 1
    IN /\ r \in 1 .. Len(runs)
       /\ run.pc = "frame"
       /\ IF epoch < run.config.epochs /\ ~stopTraining
          THEN /\ runs' = [runs EXCEPT ![r] =
                              [@ EXCEPT !.epoch = epoch, !.pc = "fit",
                                        !.fitCalls = Append(@, epoch),
                                        !.xs = PrepareXs(currentDataset.sequences,
                                                         currentDataset.stats),
                                        !.ys = PrepareYs(currentDataset.targets,
                                                         currentDataset.stats)]]
               /\ UNCHANGED <<startDisabled, stopDisabled, trainingStatus>>
          ELSE /\ runs' = [runs EXCEPT ![r] = AfterLoop(run, epoch, stopTraining)]
               /\ trainingStatus' =
                      IF AfterLoop(run, epoch, stopTraining).outcome = "Failed"
                      THEN [type |-> "error", text |-> "Training error"]
                      ELSE IF stopTraining
                      THEN [type |-> "warning", text |-> "Training stopped"]
                      ELSE [type |-> "success", text |-> "Training completed"]
               /\ startDisabled' = FALSE
               /\ stopDisabled' = TRUE
       /\ UNCHANGED <<stopTraining, lastClick>>
       /\ UNCHANGED genVars

\* The await after an epoch of run r returns: epoch++, the loop condition, and either
\* the next model.fit call or the lines after the loop.
NextFrame(r) ==
    LET run == runs[r]
        epoch == run.epoch + 1
    IN /\ r \in 1 .. Len(runs)
       /\ run.pc = "frame"
       /\ IF epoch < run.config.epochs /\ ~stopTraining
          THEN /\ runs' = [runs EXCEPT ![r] =
                              [@ EXCEPT !.epoch = epoch, !.pc = "fit",
                                        !.fitCalls = Append(@, epoch)]]
               /\ UNCHANGED <<startDisabled, stopDisabled, trainingStatus>>
          ELSE /\ runs' = [runs EXCEPT ![r] = AfterLoop(run, epoch, stopTraining)]
               /\ trainingStatus' =
                      IF AfterLoop(run, epoch, stopTraining).outcome = "Failed"
                      THEN [type |-> "error", text |-> "Training error"]
                      ELSE IF stopTraining
                      THEN [type |-> "warning", text |-> "Training stopped"]
                      ELSE [type |-> "success", text |-> "Training completed"]
               /\ startDisabled' = FALSE
               /\ stopDisabled' = TRUE
       /\ UNCHANGED <<stopTraining, lastClick>>
       /\ UNCHANGED genVars

(***************************************************************************)
(* Bounds and the values the forms and the library are given               *)
(***************************************************************************)
MaxSamples == 2
MaxSequenceLength == 2
MaxClock == 1
MaxEpochs == 2
MaxRuns == 2
MaxSubsetSamples == 4
BigSamples == 50

Config(samples, sequenceLength, seed, noiseStd, amp, freq) ==
    [samples |-> samples, sequenceLength |-> sequenceLength, seed |-> seed,
     noiseStd |-> noiseStd, ampMin |-> amp[1], ampMax |-> amp[2],
     freqMin |-> freq[1], freqMax |-> freq[2]]

\* what parseInt gives for the samples and sequence length fields
ParsedCounts(max) == {NaN} \cup (0 .. max)

\* the forms of the whole application: few datasets, every kind of training input
UiConfigs ==
    {Config(s, MaxSequenceLength, 1, 0, <<1, 3>>, <<0, 1>>) : s \in ParsedCounts(MaxSamples)}

\* the generation form alone: the configs validateConfig lets through, and each of
\* them with one field, or one pair of bounds, replaced by a value that breaks a constraint
PassingConfigs ==
    {Config(s, l, seed, noiseStd, <<1, 3>>, <<0, 1>>) :
        s \in ParsedCounts(MaxSamples) \ {0}, l \in ParsedCounts(MaxSequenceLength) \ {0},
        seed \in {-3, 1}, noiseStd \in {0, 1}}
    \cup {Config(MaxSamples, MaxSequenceLength, NaN, 1, <<NaN, 1>>, <<0, 1>>)}

BaseConfigs ==
    {Config(MaxSamples, MaxSequenceLength, 1, noiseStd, <<1, 3>>, <<0, 1>>) :
        noiseStd \in {0, 1}}

BrokenConfigs ==
    UNION {{[c EXCEPT !.samples = 0], [c EXCEPT !.samples = -1],
            [c EXCEPT !.sequenceLength = 0], [c EXCEPT !.noiseStd = -1],
            [c EXCEPT !.ampMin = 3], [c EXCEPT !.ampMin = 4], [c EXCEPT !.ampMin = -1],
            [c EXCEPT !.freqMin = 1], [c EXCEPT !.freqMin = 2], [c EXCEPT !.freqMin = -1],
            [c EXCEPT !.samples = 0, !.freqMin = -1]} : c \in BaseConfigs}

WideConfigs == PassingConfigs \cup BrokenConfigs

\* the configs of the two-call comparison: one sample or several, two seeds, with and
\* without noise
PairConfigs ==
    {Config(s, MaxSequenceLength, seed, noiseStd, <<1, 3>>, <<0, 1>>) :
        s \in {1, MaxSamples}, seed \in {-3, 1}, noiseStd \in {0, 1}}

\* the datasets of the subset runs
SubsetConfigs ==
    {Config(s, 1, 1, 0, <<1, 3>>, <<0, 1>>) : s \in (1 .. MaxSubsetSamples) \cup {BigSamples}}

TrainInput(units, epochs, learningRate, validationSplit, lowCpu, subsetPercent) ==
    [units |-> units, batchSize |-> 32, epochs |-> epochs, learningRate |-> learningRate,
     validationSplit |-> validationSplit, lowCpu |-> lowCpu,
     subsetPercent |-> subsetPercent]

ValidInput(epochs) == TrainInput(8, epochs, 1, 20, FALSE, 50)

UiInputs == {ValidInput(e) : e \in 1 .. MaxEpochs} \cup {TrainInput(NaN, 1, 1, 20, FALSE, 50)}

\* a valid training form, and that form with one field replaced
WideInputs ==
    {ValidInput(e) : e \in 1 .. MaxEpochs}
    \cup {[ValidInput(1) EXCEPT !.units = v] : v \in {NaN, 0, -1}}
    \cup {[ValidInput(1) EXCEPT !.batchSize = v] : v \in {NaN, 0, -1}}
    \cup {[ValidInput(1) EXCEPT !.epochs = v] : v \in {NaN, 0, -1}}
    \cup {[ValidInput(1) EXCEPT !.learningRate = v] : v \in {NaN, 0, -1, Infinity}}
    \cup {[ValidInput(1) EXCEPT !.validationSplit = v] : v \in {NaN, -10, 0, One, Infinity}}

SubsetInputs ==
    {TrainInput(8, 1, 1, 20, TRUE, p) : p \in {NaN, 0, 1, 50, 58, 100, 150}}

\* the milliseconds an epoch takes: model.fit on a small model and the await of a
\* frame, and the same on a large one
QuickFit == 50

FitTimes == {QuickFit, 5 * QuickFit}

\* what a model.fit call of TensorFlow.js resolves with: a History whose history object
\* holds, under each of the four keys, the array of the values of the one epoch
NoKeys == [key \in MetricKeys |-> Absent]
StdHistory(loss, val_loss, mae, val_mae) ==
    [defined |-> TRUE, nested |-> TRUE,
     history |-> [NoKeys EXCEPT !["loss"] = Arr(<<Num(loss)>>),
                                !["val_loss"] = Arr(<<Num(val_loss)>>),
                                !["mae"] = Arr(<<Num(mae)>>),
                                !["val_mae"] = Arr(<<Num(val_mae)>>)],
     fields |-> NoKeys]

UiHistories == {StdHistory(2, 3, 1, 1)}

Histories == UiHistories \cup {StdHistory(1, 1, 1, 1)}

\* the shapes a metric can have in what model.fit resolves with
ValueShapes ==
    {Absent, Undefined, JsNull, Num(0), Num(1), Num(NaN), Str(NaN), Str(2), Obj,
     Arr(<<>>), Arr(<<Num(1), Num(2)>>), Arr(<<Str(NaN)>>), Arr(<<Arr(<<Str(NaN)>>)>>),
     Tensor(<<Num(3)>>), Tensor(<<>>), DisposedTensor}
AltShapes == {Absent, Undefined, Num(0), Num(5), Str(NaN)}

\* the key of each pushed metric and its alternate key ("": it has none)
PrimaryKey ==
    [trainLoss |-> "loss", valLoss |-> "val_loss", trainMAE |-> "mae", valMAE |-> "val_mae"]
AlternateKey ==
    [trainLoss |-> "", valLoss |-> "valLoss", trainMAE |-> "meanAbsoluteError",
     valMAE |-> "valMeanAbsoluteError"]
Metrics == DOMAIN PrimaryKey

\* a history whose metric has the value v under its primary key and alt under its
\* alternate key, the other three metrics being numbers under their primary keys; the
\* keys are those of history.history ("history"), of the object itself, which has no
\* history ("fields"), or the metric's keys are of the object and the others of
\* history.history ("mixed")
ShapedHistory(metric, place, v, alt) ==
    LET others == [NoKeys EXCEPT !["loss"] = Num(2), !["val_loss"] = Num(3),
                                 !["mae"] = Num(1), !["val_mae"] = Num(1)]
        without == [others EXCEPT ![PrimaryKey[metric]] = Absent]
        own == IF AlternateKey[metric] = ""
               THEN [NoKeys EXCEPT ![PrimaryKey[metric]] = v]
               ELSE [NoKeys EXCEPT ![PrimaryKey[metric]] = v, ![AlternateKey[metric]] = alt]
        all == [key \in MetricKeys |-> IF own[key] # Absent THEN own[key] ELSE without[key]]
    IN [defined |-> TRUE,
        nested |-> place # "fields",
        history |-> IF place = "history" THEN all
                    ELSE IF place = "mixed" THEN without ELSE NoKeys,
        fields |-> IF place = "fields" THEN all
                   ELSE IF place = "mixed" THEN own ELSE NoKeys]

NoHistory == [defined |-> FALSE, nested |-> FALSE, history |-> NoKeys, fields |-> NoKeys]

ShapedHistories ==
    {ShapedHistory(metric, place, v, alt) :
        metric \in Metrics, place \in {"history", "fields", "mixed"},
        v \in ValueShapes, alt \in AltShapes}
    \cup {NoHistory}

NoInput == TrainInput(NaN, NaN, NaN, NaN, FALSE, NaN)
NoConfig == Config(NaN, NaN, NaN, NaN, <<NaN, NaN>>, <<NaN, NaN>>)
NoStatus == [type |-> "none", text |-> ""]

(***************************************************************************)
(* The application: every interleaving of clicks and of model.fit results  *)
(***************************************************************************)
Init ==
    /\ currentDataset = Null
    /\ status = NoStatus
    /\ startDisabled \in BOOLEAN
    /\ stopDisabled \in BOOLEAN
    /\ stopTraining = FALSE
    /\ trainingStatus = NoStatus
    /\ runs = <<>>
    /\ generateRan = FALSE
    /\ drawCount = 0
    /\ drawLog = <<>>
    /\ lastConfig = NoConfig
    /\ lastClick = [input |-> NoInput, hadDataset |-> FALSE]
    /\ remembered = Null

Generate == \E config \in UiConfigs : handleGenerate(config, 0, FALSE)

Start ==
    /\ Len(runs) < MaxRuns
    /\ \E inp \in UiInputs, rnd \in RandomStreams :
          /\ inp.lowCpu \/ rnd = <<0, 0>>
          /\ handleStartTraining(inp, rnd)

Stop == handleStopTraining

FitReturns ==
    \E r \in 1 .. MaxRuns, history \in UiHistories : FitReturn(r, history, QuickFit)

FitRaises == \E r \in 1 .. MaxRuns : FitRaise(r)

Frame == \E r \in 1 .. MaxRuns : NextFrame(r)

Next == Generate \/ Start \/ Stop \/ FitReturns \/ FitRaises \/ Frame

Spec == Init /\ [][Next]_vars

(***************************************************************************)
(* The generation form alone                                               *)
(***************************************************************************)
GenerateWide == \E config \in WideConfigs : handleGenerate(config, 0, FALSE)

NextGen == GenerateWide

SpecGen == Init /\ [][NextGen]_vars

(***************************************************************************)
(* Two calls of generate                                                   *)
(***************************************************************************)
GeneratePair ==
    \E config \in PairConfigs, now \in 0 .. MaxClock, keep \in BOOLEAN :
        handleGenerate(config, now, keep)

NextPair == GeneratePair

SpecPair == Init /\ [][NextPair]_vars

(***************************************************************************)
(* Training alone: one run, every kind of training input                   *)
(***************************************************************************)
GenerateSubset ==
    /\ runs = <<>>
    /\ \E config \in SubsetConfigs : handleGenerate(config, 0, FALSE)

StartWide ==
    /\ runs = <<>>
    /\ \E inp \in WideInputs \cup SubsetInputs, rnd \in RandomStreams :
          /\ inp.lowCpu \/ rnd = <<0, 0>>
          /\ handleStartTraining(inp, rnd)

FitReturnsAny == \E history \in Histories : FitReturn(1, history, QuickFit)

FitRaisesOne == FitRaise(1)

FrameOne == NextFrame(1)

NextTrain == GenerateSubset \/ StartWide \/ FitReturnsAny \/ FitRaisesOne \/ FrameOne

SpecTrain == Init /\ [][NextTrain]_vars

(***************************************************************************)
(* One epoch of one run, every shape of what model.fit resolves with       *)
(***************************************************************************)
GenerateFit ==
    /\ runs = <<>>
    /\ \E config \in BaseConfigs : handleGenerate(config, 0, FALSE)

StartFit ==
    /\ runs = <<>>
    /\ handleStartTraining(ValidInput(1), <<0, 0>>)

FitReturnsShaped == \E history \in ShapedHistories : FitReturn(1, history, QuickFit)

NextFit == GenerateFit \/ StartFit \/ FitReturnsShaped \/ FitRaisesOne \/ FrameOne

SpecFit == Init /\ [][NextFit]_vars

(***************************************************************************)
(* The training loop: one run of a valid form, with clicks on stop and on   *)
(* generate while it is in flight                                          *)
(***************************************************************************)
LoopInputs ==
    {ValidInput(MaxEpochs), [ValidInput(MaxEpochs) EXCEPT !.lowCpu = TRUE]}

GenerateLoop == \E config \in BaseConfigs : handleGenerate(config, 0, FALSE)

StartLoop ==
    /\ runs = <<>>
    /\ \E inp \in LoopInputs, rnd \in {<<0, 0>>, <<1, 1>>} :
          /\ inp.lowCpu \/ rnd = <<0, 0>>
          /\ handleStartTraining(inp, rnd)

NextLoop ==
    GenerateLoop \/ StartLoop \/ Stop \/ FitReturnsAny \/ FitRaisesOne \/ FrameOne

SpecLoop == Init /\ [][NextLoop]_vars

\* The same run when every pending model.fit call resolves or raises in the end, and
\* every awaited frame comes.
SpecLive ==
    /\ Init
    /\ [][NextLoop]_vars
    /\ WF_vars(FitReturnsAny \/ FitRaisesOne)
    /\ WF_vars(FrameOne)

\* The generator on seeds of every kind: negative (the stream passes the counter 0,
\* whose draw is 0), positive, not a number (the seed field left empty) and 2^53.
DrawConfigs ==
    {Config(s, MaxSequenceLength, seed, noiseStd, <<1, 3>>, <<0, 1>>) :
        s \in {1, MaxSamples}, seed \in {-3, 1, NaN, TwoTo53}, noiseStd \in {0, 1}}

GenerateDraws ==
    \E config \in DrawConfigs, keep \in BOOLEAN : handleGenerate(config, 0, keep)

NextDraws == GenerateDraws

SpecDraws == Init /\ [][NextDraws]_vars

\* One run of one epoch more than MaxEpochs, whose epochs take any of FitTimes.
StartProgress ==
    /\ runs = <<>>
    /\ handleStartTraining(ValidInput(MaxEpochs + 1), <<0, 0>>)

FitReturnsTimed ==
    \E took \in FitTimes : FitReturn(1, StdHistory(2, 3, 1, 1), took)

NextProgress ==
    GenerateLoop \/ StartProgress \/ Stop \/ FitReturnsTimed \/ FitRaisesOne \/ FrameOne

SpecProgress == Init /\ [][NextProgress]_vars

\* One run of one epoch more than MaxEpochs, whose validation loss is any of
\* ValLosses at each epoch.
ValLosses == {1, 2, NaN}

FitReturnsLoss ==
    \E val_loss \in ValLosses : FitReturn(1, StdHistory(2, val_loss, 1, 1), QuickFit)

NextSummary ==
    GenerateLoop \/ StartProgress \/ Stop \/ FitReturnsLoss \/ FitRaisesOne \/ FrameOne

SpecSummary == Init /\ [][NextSummary]_vars

(***************************************************************************)
(* Properties                                                              *)
(***************************************************************************)
Runs == 1 .. Len(runs)

Elements(s) == {s[k] : k \in 1 .. Len(s)}

\* C1: if a stop is requested while epoch k of a run is in flight, model.fit is never
\* called and no progress is shown for an epoch of that run greater than k, and the run,
\* when it ends, reports Stopped (a run whose model.fit raised is left aside: it ends
\* with the error).  Checked under Spec.
StopEndsTheRun ==
    \A r \in Runs :
        runs[r].stopAt >= 0 =>
            /\ \A e \in Elements(runs[r].fitCalls) : e <= runs[r].stopAt
            /\ \A e \in Elements(runs[r].shown) : e <= runs[r].stopAt
            /\ (runs[r].pc = "done" /\ ~runs[r].fitRaised => runs[r].outcome = "Stopped")

\* C2: when a run has ended, in whatever way, neither of its tensors nor its model is
\* still allocated.  Checked under Spec.
ResourcesReleased ==
    \A r \in Runs :
        runs[r].pc = "done" =>
            /\ runs[r].xsTensor # "live"
            /\ runs[r].ysTensor # "live"
            /\ runs[r].model # "live"

\* C3: a run that has ended has one of the three outcomes: Failed exactly when it raised
\* (in model.fit, or before the first model.fit call), otherwise Stopped exactly when a
\* stop was requested during the run, otherwise Completed, and then all config.epochs
\* epochs finished.  Checked under Spec.
Raised(run) == run.fitRaised \/ run.fitCalls = <<>>

OneOutcome ==
    \A r \in Runs :
        runs[r].pc = "done" =>
            /\ runs[r].outcome \in {"Completed", "Stopped", "Failed"}
            /\ (runs[r].outcome = "Failed" <=> Raised(runs[r]))
            /\ (runs[r].outcome = "Stopped" <=> ~Raised(runs[r]) /\ runs[r].stopRequested)
            /\ (runs[r].outcome = "Completed" <=>
                    /\ ~Raised(runs[r])
                    /\ ~runs[r].stopRequested
                    /\ Len(runs[r].trainLosses) = runs[r].config.epochs)

\* the generation constraints; a comparison with a value that is not a number is false
MeetsConstraints(config) ==
    /\ JsGe(config.samples, 1)
    /\ JsGe(config.sequenceLength, 1)
    /\ JsGe(config.noiseStd, 0)
    /\ JsLt(config.ampMin, config.ampMax)
    /\ JsLt(config.freqMin, config.freqMax)
    /\ JsGe(config.ampMin, 0)
    /\ JsGe(config.freqMin, 0)

\* C4: a handleGenerate call whose config violates a generation constraint reports an
\* error, does not run DatasetGenerator.generate and leaves currentDataset as it was.
\* Checked under SpecGen.
BadConfigRejected ==
    [][~MeetsConstraints(lastConfig') =>
           /\ status'.type = "error"
           /\ ~generateRan'
           /\ currentDataset' = currentDataset]_vars

\* C5: currentDataset is null, or its sequences, targets and metadata all have
\* stats.samplesCount >= 1 entries and every sequence has stats.sequenceLength >= 1
\* elements.  Checked under SpecGen.
DatasetShape ==
    currentDataset # Null =>
        /\ Len(currentDataset.sequences) = currentDataset.stats.samplesCount
        /\ Len(currentDataset.targets) = currentDataset.stats.samplesCount
        /\ Len(currentDataset.metadata) = currentDataset.stats.samplesCount
        /\ JsGe(currentDataset.stats.samplesCount, 1)
        /\ JsGe(currentDataset.stats.sequenceLength, 1)
        /\ \A i \in 1 .. Len(currentDataset.sequences) :
              Len(currentDataset.sequences[i]) = currentDataset.stats.sequenceLength

\* C6: when generate has just run with the config of a remembered earlier call, it
\* returned the sequences, targets and metadata of that call, whatever was generated
\* in between.  Checked under SpecPair.
SameConfigSameData ==
    (remembered # Null /\ generateRan /\ lastConfig = remembered.config) =>
        /\ currentDataset.sequences = remembered.sequences
        /\ currentDataset.targets = remembered.targets
        /\ currentDataset.metadata = remembered.metadata

\* two calls with the same config at different times, another config generated between
\* them, noise drawn in both
SameConfigTwice ==
    /\ remembered # Null
    /\ generateRan
    /\ lastConfig = remembered.config
    /\ remembered.between
    /\ currentDataset.stats.generatedAt # remembered.at
    /\ lastConfig.noiseStd > 0
    /\ lastConfig.samples >= 2

\* C7: every target is amplitude * sin(2 pi frequency sequenceLength + phase) of its
\* sample's metadata, with no noise term, and a dataset generated with noiseStd = 0 took
\* three draws per sample and no other.  Checked under SpecGen.
TargetsNoiseFree ==
    currentDataset # Null =>
        /\ \A i \in 1 .. Len(currentDataset.targets) :
              LET meta == currentDataset.metadata[i] IN
              currentDataset.targets[i] =
                  NumMul(meta.amplitude,
                         Sin4(NumAdd(NumMul(meta.frequency,
                                            currentDataset.stats.sequenceLength),
                                     meta.phase)))
        /\ (~JsGt(currentDataset.stats.config.noiseStd, 0) =>
                drawCount = 3 * Len(currentDataset.sequences))

\* a dataset generated with noise, in which some sequence value is off its sine
NoisedSequences ==
    /\ currentDataset # Null
    /\ currentDataset.stats.config.noiseStd > 0
    /\ Len(currentDataset.targets) >= 2
    /\ \E i \in 1 .. Len(currentDataset.sequences) :
          \E t \in 1 .. Len(currentDataset.sequences[i]) :
              LET meta == currentDataset.metadata[i] IN
              /\ currentDataset.sequences[i][t] # NaN
              /\ currentDataset.sequences[i][t] #
                     meta.amplitude * Sin4(meta.frequency * (t - 1) + meta.phase)

\* C8: a low-CPU run at percent p (1 .. 100) on n samples trains on exactly
\* max(1, floor(n * p / 100)) samples, taken from distinct indices of the dataset, the
\* sequence and the target of each from the same index; at p = 100 on every index.
\* Checked under SpecTrain.
SubsetExact ==
    \A r \in Runs :
        LET run == runs[r]
            n == run.total
            p == run.config.subsetPercent
            floor == (n * p) \div 100
        IN (run.config.lowCpu /\ p \in 1 .. 100) =>
              /\ Len(run.sequences) = (IF floor < 1 THEN 1 ELSE floor)
              /\ Len(run.targets) = Len(run.sequences)
              /\ Len(run.chosen) = Len(run.sequences)
              /\ Cardinality(Elements(run.chosen)) = Len(run.chosen)
              /\ Elements(run.chosen) \subseteq 0 .. n - 1
              /\ \A k \in 1 .. Len(run.chosen) :
                    /\ run.sequences[k] = currentDataset.sequences[run.chosen[k] + 1]
                    /\ run.targets[k] = currentDataset.targets[run.chosen[k] + 1]
              /\ (p = 100 => Elements(run.chosen) = 0 .. n - 1)

IsFinite(x) == x.class = "finite"

\* C9: a run started on a dataset whose std is zero fails before any model.fit call, and
\* no value of its xs or ys is NaN or infinite.  Checked under SpecTrain.
DegenerateDatasetRejected ==
    \A r \in Runs :
        (runs[r].stats.std.den > 0 /\ runs[r].stats.std.sq = 0) =>
            /\ runs[r].fitCalls = <<>>
            /\ runs[r].outcome = "Failed"
            /\ \A k \in 1 .. Len(runs[r].xs) :
                  \A t \in 1 .. Len(runs[r].xs[k]) : IsFinite(runs[r].xs[k][t])
            /\ \A k \in 1 .. Len(runs[r].ys) : IsFinite(runs[r].ys[k])

\* a finite number greater than 0; a finite number in [0, 1)
FinitePositive(x) == x # NaN /\ x # Infinity /\ x > 0
FiniteFraction(x) == x # NaN /\ x # Infinity /\ x >= 0 /\ x < One

\* the field of a training form the claim has rejected, "none" when it has none
RejectedField(inp) ==
    IF ~FinitePositive(inp.units) THEN "Invalid LSTM units"
    ELSE IF ~FinitePositive(inp.batchSize) THEN "Invalid batch size"
    ELSE IF ~FinitePositive(inp.epochs) THEN "Invalid epochs"
    ELSE IF ~FinitePositive(inp.learningRate) THEN "Invalid learning rate"
    ELSE IF ~FiniteFraction(inp.validationSplit) THEN "Invalid validation split"
    ELSE "none"

\* C10: after a click on start with a dataset present and a form in which units,
\* batchSize, epochs or learningRate is not a finite number greater than 0, or
\* validationSplit not a finite number in [0, 1), the status is an error naming the
\* field and no run has started (no model built, no model.fit call).  Checked under
\* SpecTrain, where the click is the only one.
BadTrainingConfigRejected ==
    (lastClick.hadDataset /\ RejectedField(lastClick.input) # "none") =>
        /\ runs = <<>>
        /\ trainingStatus = [type |-> "error", text |-> RejectedField(lastClick.input)]

\* the number a history holds for a metric: what its primary key yields when that is a
\* number (or a string that reads as one), else what its alternate key yields when that
\* is a number, else 0
YieldsNumber(history, key) ==
    /\ key # ""
    /\ extractHistoryMetric(history, key).type \in {"number", "string"}
    /\ (extractHistoryMetric(history, key).type = "string" =>
            extractHistoryMetric(history, key).num # NaN)

ExpectedMetric(history, metric) ==
    IF YieldsNumber(history, PrimaryKey[metric])
    THEN Num(extractHistoryMetric(history, PrimaryKey[metric]).num)
    ELSE IF YieldsNumber(history, AlternateKey[metric])
    THEN Num(extractHistoryMetric(history, AlternateKey[metric]).num)
    ELSE Num(0)

Recorded(run, e) ==
    [trainLoss |-> run.trainLosses[e], valLoss |-> run.valLosses[e],
     trainMAE |-> run.trainMAEs[e], valMAE |-> run.valMAEs[e]]

\* C11: whatever model.fit resolved with, each of the four values pushed for the epoch
\* is a number: the one its primary key yields, else the one its alternate key yields,
\* else 0.  Checked under SpecFit.
MetricsAreNumbers ==
    \A r \in Runs :
        \A e \in 1 .. Len(runs[r].histories) :
            \A metric \in Metrics :
                /\ Recorded(runs[r], e)[metric].type = "number"
                /\ Recorded(runs[r], e)[metric] = ExpectedMetric(runs[r].histories[e], metric)

\* the epochs of a run that have completed: those model.fit was called for, but for the
\* one whose call is pending or raised
Completed(run) ==
    IF run.pc = "fit" \/ run.fitRaised THEN Len(run.fitCalls) - 1 ELSE Len(run.fitCalls)

IsPrefix(a, b) == Len(a) <= Len(b) /\ \A k \in 1 .. Len(a) : a[k] = b[k]

HistoryArrays(run) == <<run.trainLosses, run.valLosses, run.trainMAEs, run.valMAEs>>

\* C12: after every step, the model.fit calls of a run were made for the epochs 0, 1, 2,
\* ... in this order, one call per epoch; its four history arrays have the same length,
\* the number of epochs completed so far; and each array is what it was before the step
\* with at most one value appended.  Checked under SpecLoop.
EpochsInOrder ==
    [][\A r \in 1 .. Len(runs') :
          /\ \A k \in 1 .. Len(runs'[r].fitCalls) : runs'[r].fitCalls[k] = k - 1
          /\ \A i \in 1 .. 4 : Len(HistoryArrays(runs'[r])[i]) = Completed(runs'[r])
          /\ r <= Len(runs) =>
                \A i \in 1 .. 4 :
                    /\ IsPrefix(HistoryArrays(runs[r])[i], HistoryArrays(runs'[r])[i])
                    /\ Len(HistoryArrays(runs'[r])[i]) <= Len(HistoryArrays(runs[r])[i]) + 1
      ]_vars

\* a run that went through several epochs and ended
SeveralEpochsDone ==
    \E r \in Runs :
        /\ runs[r].pc = "done"
        /\ Len(runs[r].fitCalls) >= 2
        /\ Len(runs[r].valMAEs) = Len(runs[r].fitCalls)

\* C13: the progress of an epoch that is not the last one of its run is written to the
\* page at most once per 200 ms: it is written no sooner than 200 ms after the progress
\* of the epoch before it.  Checked under SpecProgress.
ProgressThrottled ==
    \A r \in Runs :
        \A k \in 2 .. Len(runs[r].shownAt) - 1 :
            runs[r].shownAt[k] - runs[r].shownAt[k - 1] >= 200

\* C14: when a run has ended Completed or Stopped, the bestValLoss of its summary is
\* the minimum of valLosses (one of them, and no greater than any of them) and its
\* bestEpoch is the 1-based position of the first entry of valLosses equal to it.
\* Checked under SpecSummary.
BestIsFirstMinimum ==
    \A r \in Runs :
        runs[r].outcome \in {"Completed", "Stopped"} =>
            LET s == runs[r].metrics
                v == [k \in 1 .. Len(runs[r].valLosses) |-> runs[r].valLosses[k].num]
            IN /\ s.shown
               /\ \A k \in 1 .. Len(v) : JsLe(s.bestValLoss, v[k])
               /\ s.bestEpoch \in 1 .. Len(v)
               /\ v[s.bestEpoch] = s.bestValLoss
               /\ \A k \in 1 .. s.bestEpoch - 1 : v[k] # s.bestValLoss

\* the same for the runs whose validation losses are all numbers other than NaN
BestIsFirstMinimumOfNumbers ==
    \A r \in Runs :
        /\ runs[r].outcome \in {"Completed", "Stopped"}
        /\ \A k \in 1 .. Len(runs[r].valLosses) : runs[r].valLosses[k].num # NaN
        => LET s == runs[r].metrics
               v == [k \in 1 .. Len(runs[r].valLosses) |-> runs[r].valLosses[k].num]
           IN /\ s.shown
              /\ \A k \in 1 .. Len(v) : JsLe(s.bestValLoss, v[k])
              /\ s.bestEpoch \in 1 .. Len(v)
              /\ v[s.bestEpoch] = s.bestValLoss
              /\ \A k \in 1 .. s.bestEpoch - 1 : v[k] # s.bestValLoss

\* C15: a stop takes effect at an epoch boundary only.  In every step: when the
\* model.fit call of an epoch resolves after a stop was requested, the four metrics of
\* that epoch are appended and its progress is shown, and the run goes on to the await
\* that ends the epoch; and a run turns Stopped only from that await, with the metrics
\* and the progress of every epoch it started, the one in flight at the request among
\* them.  (A model.fit call that raises ends the run with the error.)  Checked under
\* SpecLoop.
StopAtEpochBoundary ==
    [][\A r \in 1 .. Len(runs) :
          LET before == runs[r]
              after == runs'[r]
          IN /\ before.pc = "fit" /\ after.pc # "fit" /\ before.stopRequested
                /\ ~after.fitRaised
                => /\ after.pc = "frame"
                   /\ \A i \in 1 .. 4 :
                          Len(HistoryArrays(after)[i]) = Len(HistoryArrays(before)[i]) + 1
                   /\ after.shown = Append(before.shown, before.epoch)
             /\ after.outcome = "Stopped" /\ before.outcome # "Stopped"
                => /\ before.pc = "frame"
                   /\ \A i \in 1 .. 4 : Len(HistoryArrays(after)[i]) = before.epoch + 1
                   /\ after.shown = [k \in 1 .. before.epoch + 1 |-> k - 1]
                   /\ before.stopAt <= before.epoch
      ]_vars

\* a run stopped during an epoch that was not its last, and ended
StoppedInFlight ==
    \E r \in Runs :
        /\ runs[r].outcome = "Stopped"
        /\ runs[r].stopAt >= 0
        /\ runs[r].stopAt + 1 < runs[r].config.epochs
        /\ runs[r].stopAt \in Elements(runs[r].shown)

\* the draws of the last generate that began the params of a sample
SampleStarts == {k \in 1 .. Len(drawLog) : drawLog[k].use = "amplitude"}

\* the noise draws (u2, one per call of gaussianRandom) of the sample begun at draw k
NoiseCallsOf(k) ==
    {j \in k .. Len(drawLog) :
        /\ drawLog[j].use = "u2"
        /\ \A i \in k + 1 .. j : i \notin SampleStarts}

\* the draws are taken sample by sample: amplitude, frequency and phase, then, only
\* when noiseStd > 0, the noise draws of each time step
DrawOrderKept ==
    currentDataset # Null =>
        LET st == currentDataset.stats
            n == Rounds(st.samplesCount)
            noisy == JsGt(st.config.noiseStd, 0)
        IN /\ drawCount = Len(drawLog)
           /\ Cardinality(SampleStarts) = n
           /\ n > 0 => drawLog[1].use = "amplitude"
           /\ \A k \in SampleStarts :
                  /\ k + 2 <= Len(drawLog)
                  /\ drawLog[k + 1].use = "frequency"
                  /\ drawLog[k + 2].use = "phase"
                  /\ \A j \in k + 3 .. Len(drawLog) :
                         (\A i \in k + 1 .. j : i \notin SampleStarts)
                         => drawLog[j].use \in {"u1", "u2"}
                  /\ Cardinality(NoiseCallsOf(k))
                         = IF noisy THEN Rounds(st.sequenceLength) ELSE 0
           /\ ~noisy => Len(drawLog) = 3 * n

\* each draw is made at the counter the draw before it left, the first one at the seed,
\* and leaves the counter one higher
DrawsAdvance ==
    currentDataset # Null =>
        /\ Len(drawLog) > 0 => drawLog[1].counter = currentDataset.stats.config.seed
        /\ \A k \in 1 .. Len(drawLog) :
               /\ drawLog[k].counter # NaN
               /\ drawLog[k].after = drawLog[k].counter + 1
               /\ k > 1 => drawLog[k].counter = drawLog[k - 1].after

\* C16: generate draws from one seeded stream in a fixed order, for each sample the three
\* draws of amplitude, frequency and phase and then, only when noiseStd > 0, the noise
\* draws of each time step; each draw advances the counter of the stream by one; with
\* noiseStd = 0 the draws are 3 * samples.  Checked under SpecDraws.
DrawsInOrder == DrawOrderKept /\ DrawsAdvance

\* the counter advances when the seed is a number below 2^53
SafeSeedDrawsAdvance ==
    currentDataset # Null /\ currentDataset.stats.config.seed \notin {NaN, TwoTo53}
    => DrawsAdvance

\* The draw k of the last generate, when made by gaussianRandom, is made as the claim
\* has it: a u1 that is at most 1e-10 is followed by another u1, any other u1 by the
\* one u2 of the call; the u1 before a u2, which goes to the logarithm, is a number
\* greater than 1e-10.
GaussianDraw(k) ==
    /\ drawLog[k].use = "u1"
       => /\ k < Len(drawLog)
          /\ drawLog[k + 1].use = IF drawLog[k].tiny THEN "u1" ELSE "u2"
    /\ drawLog[k].use = "u2"
       => /\ k > 1
          /\ drawLog[k - 1].use = "u1"
          /\ ~drawLog[k - 1].tiny
          /\ drawLog[k - 1].value # NaN

\* C18: every call of gaussianRandom draws u1 again for as long as u1 <= 1e-10, passes
\* a u1 greater than 1e-10 to the logarithm and then draws u2 once: two draws or more
\* a call, and two when no u1 is rejected.  Checked under SpecDraws.
GaussianRedraws == \A k \in 1 .. Len(drawLog) : GaussianDraw(k)

\* the same for the seeds that are numbers
GaussianRedrawsOfNumbers ==
    currentDataset # Null /\ currentDataset.stats.config.seed # NaN => GaussianRedraws

\* a call of gaussianRandom that rejected a u1
Redrawn ==
    \E k \in 1 .. Len(drawLog) - 2 :
        /\ drawLog[k].use = "u1" /\ drawLog[k].tiny
        /\ drawLog[k + 1].use = "u1" /\ drawLog[k + 2].use = "u2"

\* the stats of the dataset bound its values and are those of its sequence values
StatsOfSequences(dataset) ==
    LET allValues == Flat(dataset.sequences)
    IN /\ \A i \in 1 .. Len(dataset.sequences) :
              \A t \in 1 .. Len(dataset.sequences[i]) :
                  /\ JsLe(dataset.stats.min, dataset.sequences[i][t])
                  /\ JsLe(dataset.sequences[i][t], dataset.stats.max)
       /\ allValues # <<>> => /\ dataset.stats.min \in Elements(allValues)
                              /\ dataset.stats.max \in Elements(allValues)
       /\ dataset.stats.mean = [num |-> Sum(allValues), den |-> Len(allValues)]
       /\ dataset.stats.std = calculateStd(allValues)

\* C17: in every generated dataset stats.min <= v <= stats.max for every value v of
\* every sequence, and min, max, mean and std are those of the sequence values, the
\* targets having no part in them.  Checked under SpecDraws.
StatsBoundValues == currentDataset # Null => StatsOfSequences(currentDataset)

\* the same for the datasets whose values are all numbers
StatsBoundNumbers ==
    currentDataset # Null /\ NaN \notin Elements(Flat(currentDataset.sequences))
    => StatsOfSequences(currentDataset)

\* C19: a run trains on the normalised values of the samples it chose and of no other:
\* with lowCpu the subset is taken first and each of its sequence values and targets is
\* normalised by the mean and std of the whole dataset (currentDataset.stats); without
\* lowCpu the samples are all those of the dataset, in its order.  Checked under
\* SpecTrain, where the dataset of a run stays the current one.
FullStatsNormalize ==
    \A r \in Runs :
        LET run == runs[r]
            stats == currentDataset.stats
        IN /\ ~run.config.lowCpu =>
                 /\ run.sequences = currentDataset.sequences
                 /\ run.targets = currentDataset.targets
           /\ Len(run.xs) = Len(run.chosen)
           /\ Len(run.ys) = Len(run.chosen)
           /\ \A k \in 1 .. Len(run.chosen) :
                 /\ Len(run.xs[k]) = Len(currentDataset.sequences[run.chosen[k] + 1])
                 /\ \A t \in 1 .. Len(run.xs[k]) :
                        run.xs[k][t]
                            = Normalize(currentDataset.sequences[run.chosen[k] + 1][t], stats)
                 /\ run.ys[k] = Normalize(currentDataset.targets[run.chosen[k] + 1], stats)

\* a low-CPU run on a part of the dataset whose own mean is not that of the whole
SubsetOfOtherMean ==
    \E r \in Runs :
        LET own == Mean(Flat(runs[r].sequences))
            full == currentDataset.stats.mean
        IN /\ runs[r].config.lowCpu
           /\ Len(runs[r].chosen) < Len(currentDataset.sequences)
           /\ runs[r].xs # <<>>
           /\ own.num * full.den # full.num * own.den

\* C20: a run does not modify the dataset and a new dataset does not reach a run.  In
\* every step: a step of a run, or a click on Start or Stop, leaves currentDataset
\* (sequences, targets, metadata and stats) as it was; and the sequences, the targets,
\* the xs and the ys of every run that has started are after the step what they were
\* before, whether the step is one of the run or a generation.  Checked under SpecLoop.
DatasetUntouched ==
    [][/\ runs' # runs => currentDataset' = currentDataset
       /\ \A r \in 1 .. Len(runs) :
              /\ runs'[r].xs = runs[r].xs
              /\ runs'[r].ys = runs[r].ys
              /\ runs'[r].sequences = runs[r].sequences
              /\ runs'[r].targets = runs[r].targets
      ]_vars

\* a run that went through several epochs while another dataset was generated, and
\* ended with the xs and ys of the dataset it was started on
RegeneratedDuringRun ==
    \E r \in Runs :
        /\ runs[r].pc = "done"
        /\ Len(runs[r].fitCalls) >= 2
        /\ runs[r].stats # currentDataset.stats
        /\ runs[r].xs # <<>>
        /\ runs[r].xs = PrepareXs(runs[r].sequences, runs[r].stats)
        /\ runs[r].ys = PrepareYs(runs[r].targets, runs[r].stats)

RunsInFlight == {r \in Runs : InFlight(runs[r])}

\* C21: at most one run is in flight at any time, and while a run is in flight the
\* start button stays disabled, whatever is clicked (a generation during the run
\* included), so that no second run starts and clears the stop flag.  Checked under Spec.
OneRunInFlight ==
    /\ Cardinality(RunsInFlight) <= 1
    /\ RunsInFlight # {} => startDisabled

\* the first half alone
NoSecondRun == Cardinality(RunsInFlight) <= 1

\* C22: every run that has started ends (when every model.fit call resolves or raises,
\* and every awaited frame comes), and the step in which a run ends, or starts and ends
\* at once, leaves the start button enabled and the stop button disabled.  Checked
\* under SpecLive.
RunsEnd ==
    /\ \A r \in 1 .. MaxRuns :
           (r \in Runs /\ InFlight(runs[r])) ~> (r \in Runs /\ runs[r].pc = "done")
    /\ [][\A r \in 1 .. Len(runs') :
              /\ runs'[r].pc = "done"
              /\ r <= Len(runs) => InFlight(runs[r])
              => ~startDisabled' /\ stopDisabled'
         ]_vars

\* a run that went through its epochs and ended, the buttons as its end left them
EndedWithButtons ==
    \E r \in Runs :
        /\ runs[r].outcome = "Completed"
        /\ Len(runs[r].fitCalls) = runs[r].config.epochs
        /\ ~startDisabled
        /\ stopDisabled

\* C23: in every state, a run whose final summary was computed (displayTrainingMetrics
\* was called) holds at least one value in each of its four history arrays, and the
\* summary was written; a run that ended Completed or Stopped had its summary computed;
\* and a run in flight has made its first model.fit call, so that a stop requested
\* before or at the start of a run leaves no empty history.  Checked under SpecLoop.
SummaryHasEpochs ==
    \A r \in Runs :
        /\ runs[r].metrics.called =>
               /\ \A i \in 1 .. 4 : Len(HistoryArrays(runs[r])[i]) >= 1
               /\ runs[r].metrics.shown
        /\ runs[r].outcome \in {"Completed", "Stopped"} => runs[r].metrics.called
        /\ InFlight(runs[r]) => Len(runs[r].fitCalls) >= 1

\* a run stopped during its first model.fit call, its summary made of the one epoch
StoppedAtFirstEpoch ==
    \E r \in Runs :
        /\ runs[r].outcome = "Stopped"
        /\ runs[r].stopAt = 0
        /\ runs[r].metrics.called
        /\ Len(runs[r].valLosses) = 1
        /\ runs[r].config.epochs > 1

====
